---- MODULE Spec2Model ----
(***************************************************************************)
(* Model of the DataPipeline of the baby feeding tracker                   *)
(* (src/src/pipeline/data_pipeline.py) and of the FeedingData schema       *)
(* (src/src/models/children.py).                                           *)
(*                                                                         *)
(* A DataFrame is a record [kind, columns, rows]: columns is the set of    *)
(* column names, rows the sequence of row records.  A frame with a         *)
(* DatetimeIndex keeps the index label of each row in the field "index".   *)
(* A timestamp is [kind |-> "Timestamp", day, sec]: the calendar day as a  *)
(* day number and the second of that day.  A float is written as the       *)
(* fraction [nan, num, den] so that means and percentages stay exact.      *)
(***************************************************************************)
EXTENDS Integers, Sequences, FiniteSets, TLC

VARIABLES
    file,               \* the source file at full_file_path: exists, suffix, content
    name,               \* self.name
    dob,                \* self.dob, pd.Timestamp(dob)
    raw_data,           \* self.raw_data
    validated_data,     \* self.validated_data
    transformed_data,   \* self.transformed_data
    daily_data,         \* self.daily_data
    weekly_data,        \* self.weekly_data
    input_data_errors,  \* self.input_data_errors
    cleaned_data,       \* the frame _clean_data returned to process()
    report,             \* the summary printed by _validate_inputs
    st,                 \* the stage the pipeline has completed
    exc,                \* the exception that left process(), "None" while none has
    other               \* the fields of a second instance, None when there is none

vars == <<file, name, dob, raw_data, validated_data, transformed_data, daily_data,
          weekly_data, input_data_errors, cleaned_data, report, st, exc, other>>

-----------------------------------------------------------------------------
(* Bounds of the model *)

\* rows of a source file
MaxRawRows == 2
\* rows of a cleaned table handed to _validate_inputs
MaxCleanRows == 2
\* rows of a validated table handed to _transform_data
MaxRows == 3
\* rows of a validated table when the times of day and the dates of birth vary
MaxEnrichRows == 1
\* calendar days 0..MaxDay carry feeds
MaxDay == 2
\* rows of a validated table when the volumes of one week vary
MaxLabelRows == 2

-----------------------------------------------------------------------------
(* Values *)

None == [kind |-> "None"]
NaN == [kind |-> "NaN"]

Timestamp(d, s) == [kind |-> "Timestamp", day |-> d, sec |-> s]
Str(cs) == [kind |-> "str", chars |-> cs]
DataFrame(cols, rs) == [kind |-> "DataFrame", columns |-> cols, rows |-> rs]

HMS(h, m, s) == h * 3600 + m * 60 + s

\* a float as a quotient; den > 0 unless nan
Float(n, d) == [nan |-> FALSE, num |-> n, den |-> d]
FloatNaN == [nan |-> TRUE, num |-> 0, den |-> 1]

RECURSIVE SeqSum(_)
SeqSum(s) == IF s = <<>> THEN 0 ELSE Head(s) + SeqSum(Tail(s))

RECURSIVE Count(_, _)
Count(s, x) == IF s = <<>> THEN 0
               ELSE (IF Head(s) = x THEN 1 ELSE 0) + Count(Tail(s), x)

Range(s) == {s[i] : i \in 1..Len(s)}

SeqsUpTo(S, n) == UNION {[1..k -> S] : k \in 0..n}

-----------------------------------------------------------------------------
(* _load_data *)

SupportedExcel == {".xls", ".xlsx"}
SupportedCsv == {".csv"}

\* str.lower() on the suffixes of the model
lower(s) == CASE s = ".XLSX" -> ".xlsx"
              [] s = ".XLS" -> ".xls"
              [] s = ".CSV" -> ".csv"
              [] s = ".TXT" -> ".txt"
              [] OTHER -> s

RawColumns == {"Start", "Finish", "Activity", "Type", "Details"}

\* mutant: the suffix is looked at before the existence of the file
load_data_suffix_first(f) ==
    LET suffix == lower(f.suffix) IN
    IF ~(suffix \in SupportedExcel \/ suffix \in SupportedCsv)
    THEN [exc |-> "ValueError", df |-> None]
    ELSE IF ~f.exists
    THEN [exc |-> "FileNotFoundError", df |-> None]
    ELSE [exc |-> "None", df |-> DataFrame(RawColumns, f.content)]

\* the result of _load_data: the exception raised, or the frame read
load_data(f) ==
    IF ~f.exists
    THEN [exc |-> "FileNotFoundError", df |-> None]
    ELSE LET suffix == lower(f.suffix) IN
         IF suffix \in SupportedExcel \/ suffix \in SupportedCsv
         THEN [exc |-> "None", df |-> DataFrame(RawColumns, f.content)]
         ELSE [exc |-> "ValueError", df |-> None]

-----------------------------------------------------------------------------
(* _clean_data *)

Digits == {"0", "1", "2", "3", "4", "5", "6", "7", "8", "9"}

DigitVal(c) == CASE c = "0" -> 0 [] c = "1" -> 1 [] c = "2" -> 2 [] c = "3" -> 3
                 [] c = "4" -> 4 [] c = "5" -> 5 [] c = "6" -> 6 [] c = "7" -> 7
                 [] c = "8" -> 8 [] c = "9" -> 9

RECURSIVE SkipNonDigits(_)
SkipNonDigits(cs) == IF cs = <<>> \/ Head(cs) \in Digits THEN cs
                     ELSE SkipNonDigits(Tail(cs))

RECURSIVE TakeDigits(_)
TakeDigits(cs) == IF cs = <<>> \/ Head(cs) \notin Digits THEN <<>>
                  ELSE <<Head(cs)>> \o TakeDigits(Tail(cs))

\* Series.str.extract(r'(\d+)') on one cell: the first run of digits, NaN when
\* the cell is missing or holds no digit
str_extract(cell) ==
    IF cell.kind # "str" THEN NaN
    ELSE LET run == TakeDigits(SkipNonDigits(cell.chars)) IN
         IF run = <<>> THEN NaN ELSE Str(run)

fillna(cell, v) == IF cell.kind = "NaN" THEN v ELSE cell

RECURSIVE ParseInt(_, _)
ParseInt(cs, acc) == IF cs = <<>> THEN acc
                     ELSE ParseInt(Tail(cs), 10 * acc + DigitVal(Head(cs)))

astype_int(cell) == ParseInt(cell.chars, 0)

\* DataFrame.drop_duplicates(): the first of every group of rows equal in
\* every column is kept, in order
RECURSIVE drop_duplicates(_)
drop_duplicates(rs) ==
    IF rs = <<>> THEN <<>>
    ELSE LET init == drop_duplicates(SubSeq(rs, 1, Len(rs) - 1))
             last == rs[Len(rs)]
         IN IF last \in Range(init) THEN init ELSE Append(init, last)

\* the dtype pandas infers for the quantity column: a column with rows and no
\* text in any of them is read as float64, which has no .str accessor
has_str_accessor(rs) ==
    rs = <<>> \/ \E i \in 1..Len(rs) : rs[i].Details.kind = "str"

CleanColumns == {"feed_start_time", "activity", "type", "feed_volume_ml"}

clean_row(r) ==
    [feed_start_time |-> r.Start,
     activity |-> r.Activity,
     type |-> r.Type,
     feed_volume_ml |-> astype_int(fillna(str_extract(r.Details), Str(<<"0">>)))]

\* the result of _clean_data on a frame
clean_data(d) ==
    IF "Finish" \notin d.columns
    THEN [exc |-> "KeyError", df |-> None]
    ELSE IF "Details" \notin d.columns
    THEN [exc |-> "KeyError", df |-> None]
    ELSE LET rs == drop_duplicates(d.rows) IN
         IF ~has_str_accessor(rs)
         THEN [exc |-> "AttributeError", df |-> None]
         ELSE [exc |-> "None",
               df |-> DataFrame(CleanColumns, [i \in 1..Len(rs) |-> clean_row(rs[i])])]

-----------------------------------------------------------------------------
(* FeedingData, the schema of one feed record *)

ActivityValues == {"Feeding"}
ActivityTypeValues == {"Left", "Right", "Bottle"}

Error(loc, msg) == [loc |-> loc, msg |-> msg]

\* mutant: the schema without the ge=0 constraint
feed_volume_ml_errors_unconstrained(v) == <<>>

feed_volume_ml_errors(v) ==
    IF v >= 0 THEN <<>>
    ELSE <<Error("feed_volume_ml", "Input should be greater than or equal to 0")>>

\* mutant: activity declared as str, any activity is accepted
FeedingData_errors_any_activity(r) ==
    (IF r.feed_start_time.kind = "Timestamp" THEN <<>>
     ELSE <<Error("feed_start_time",
                  "Input should be a valid datetime or date, input is too short")>>)
    \o (IF r.type \in ActivityTypeValues THEN <<>>
        ELSE <<Error("type", "Input should be 'Left', 'Right' or 'Bottle'")>>)
    \o feed_volume_ml_errors(r.feed_volume_ml)

\* the errors of the ValidationError raised by FeedingData(**record_dict),
\* in the order of the fields of the model; <<>> when the record is accepted
FeedingData_errors(r) ==
    (IF r.feed_start_time.kind = "Timestamp" THEN <<>>
     ELSE <<Error("feed_start_time",
                  "Input should be a valid datetime or date, input is too short")>>)
    \o (IF r.activity \in ActivityValues THEN <<>>
        ELSE <<Error("activity", "Input should be 'Feeding'")>>)
    \o (IF r.type \in ActivityTypeValues THEN <<>>
        ELSE <<Error("type", "Input should be 'Left', 'Right' or 'Bottle'")>>)
    \o feed_volume_ml_errors(r.feed_volume_ml)

\* datetime.isoformat() as written by model_dump(mode='json')
isoformat(ts) ==
    [date |-> ts.day,
     hour |-> ts.sec \div 3600,
     minute |-> (ts.sec % 3600) \div 60,
     second |-> ts.sec % 60]

\* pd.to_datetime on an ISO text
to_datetime(iso) == Timestamp(iso.date, HMS(iso.hour, iso.minute, iso.second))

\* FeedingData(**record_dict).model_dump(mode='json') of an accepted record
model_dump(r) ==
    [feed_start_time |-> isoformat(r.feed_start_time),
     activity |-> r.activity,
     type |-> r.type,
     feed_volume_ml |-> r.feed_volume_ml,
     units |-> "ml"]

-----------------------------------------------------------------------------
(* _validate_inputs *)

\* mutant: enumerate(e.errors()) without the start value 1
error_details_from_zero(errs) ==
    [i \in 1..Len(errs) |-> [n |-> i - 1, loc |-> errs[i].loc, msg |-> errs[i].msg]]

\* "\n".join(f"{i}) {err['loc'][0]}: {err['msg']}" ...): the lines of the text,
\* each with its number, field and message
error_details(errs) ==
    [i \in 1..Len(errs) |-> [n |-> i, loc |-> errs[i].loc, msg |-> errs[i].msg]]

error_record(r, errs) ==
    [feed_start_time |-> r.feed_start_time,
     activity |-> r.activity,
     type |-> r.type,
     feed_volume_ml |-> r.feed_volume_ml,
     total_errors |-> Len(errs),
     error_details |-> error_details(errs)]

\* mutant: the loop ends at the first record that FeedingData rejects
RECURSIVE validate_rows_break(_, _, _)
validate_rows_break(rs, feeding_list, error_records) ==
    IF rs = <<>>
    THEN [feeding_list |-> feeding_list, error_records |-> error_records]
    ELSE LET r == Head(rs)
             errs == FeedingData_errors(r)
         IN IF errs = <<>>
            THEN validate_rows_break(Tail(rs), Append(feeding_list, model_dump(r)),
                                     error_records)
            ELSE [feeding_list |-> feeding_list,
                  error_records |-> Append(error_records, error_record(r, errs))]

\* the loop over df.to_dict('records'): every record goes to feeding_list or,
\* when FeedingData raises ValidationError, to error_records
RECURSIVE validate_rows(_, _, _)
validate_rows(rs, feeding_list, error_records) ==
    IF rs = <<>>
    THEN [feeding_list |-> feeding_list, error_records |-> error_records]
    ELSE LET r == Head(rs)
             errs == FeedingData_errors(r)
         IN IF errs = <<>>
            THEN validate_rows(Tail(rs), Append(feeding_list, model_dump(r)),
                               error_records)
            ELSE validate_rows(Tail(rs), feeding_list,
                               Append(error_records, error_record(r, errs)))

ValidatedColumns == {"activity", "type", "feed_volume_ml", "units"}
ErrorColumns == CleanColumns \cup {"total_errors", "error_details"}

validated_row(fr) ==
    [index |-> to_datetime(fr.feed_start_time),
     activity |-> fr.activity,
     type |-> fr.type,
     feed_volume_ml |-> fr.feed_volume_ml,
     units |-> fr.units]

\* the first record of every start time, in order
RECURSIVE first_of_each_start(_)
first_of_each_start(fl) ==
    IF fl = <<>> THEN <<>>
    ELSE LET init == first_of_each_start(SubSeq(fl, 1, Len(fl) - 1))
             last == fl[Len(fl)]
         IN IF \E k \in 1..Len(init) : init[k].feed_start_time = last.feed_start_time
            THEN init ELSE Append(init, last)

\* mutant: one row per start time, a later record with the same start time
\* is dropped
validated_frame_unique_index(feeding_list) ==
    IF feeding_list = <<>> THEN DataFrame({}, <<>>)
    ELSE LET fl == first_of_each_start(feeding_list) IN
         DataFrame(ValidatedColumns, [i \in 1..Len(fl) |-> validated_row(fl[i])])

\* pd.DataFrame(feeding_list, index=idx) without the feed_start_time column;
\* a frame built from an empty list has no columns
validated_frame(feeding_list) ==
    IF feeding_list = <<>> THEN DataFrame({}, <<>>)
    ELSE DataFrame(ValidatedColumns,
                   [i \in 1..Len(feeding_list) |-> validated_row(feeding_list[i])])

error_frame(error_records) ==
    IF error_records = <<>> THEN DataFrame({}, <<>>)
    ELSE DataFrame(ErrorColumns, error_records)

\* the summary printed at the end of _validate_inputs: the numbers the text
\* carries; "All rows passed" carries none
summary(df_validated, d, error_df) ==
    LET total_errors ==
            IF "total_errors" \in error_df.columns
            THEN SeqSum([i \in 1..Len(error_df.rows) |-> error_df.rows[i].total_errors])
            ELSE 0
    IN IF total_errors > 0
       THEN [kind |-> "failed", passed |-> Len(df_validated.rows),
             total |-> Len(d.rows), failed |-> total_errors]
       ELSE [kind |-> "all_passed"]

\* the result of _validate_inputs on a cleaned frame
validate_inputs(d) ==
    LET out == validate_rows(d.rows, <<>>, <<>>)
        df_validated == validated_frame(out.feeding_list)
        error_df == error_frame(out.error_records)
    IN [exc |-> "None", df |-> df_validated, errors |-> error_df,
        report |-> summary(df_validated, d, error_df)]

-----------------------------------------------------------------------------
(* _transform_data: the enriched records *)

SecondsPerDay == 86400
DaysPerWeek == 7

FloatGE(a, b) == a.num * b.den >= b.num * a.den
FloatLT(a, b) == a.num * b.den < b.num * a.den

\* mutant: the time elapsed rounded to the nearest day
age_days_nearest(ts, d) ==
    ((ts.day - d.day) * SecondsPerDay + ts.sec - d.sec + SecondsPerDay \div 2)
        \div SecondsPerDay

\* (index - self.dob).days: the whole days of the time elapsed, rounded down
age_days(ts, d) ==
    ((ts.day - d.day) * SecondsPerDay + ts.sec - d.sec) \div SecondsPerDay

time_of(ts) ==
    [hour |-> ts.sec \div 3600,
     minute |-> (ts.sec % 3600) \div 60,
     second |-> ts.sec % 60]

\* x.hour + x.minute / 60
fractional_hour(t) == Float(t.hour * 60 + t.minute, 60)

NightFrom == Float(45, 2)
NightUntil == Float(13, 2)

\* mutant: the night starts after 22.5, not at 22.5
night_or_day_after(hours) ==
    IF (~FloatGE(NightFrom, hours)) \/ FloatLT(hours, NightUntil) THEN "Night" ELSE "Day"

night_or_day(hours) ==
    IF FloatGE(hours, NightFrom) \/ FloatLT(hours, NightUntil) THEN "Night" ELSE "Day"

\* strftime('%I:%M %p')
strftime_IMp(ts) ==
    LET t == time_of(ts) IN
    [I |-> IF t.hour % 12 = 0 THEN 12 ELSE t.hour % 12,
     M |-> t.minute,
     p |-> IF t.hour < 12 THEN "AM" ELSE "PM"]

EnrichedColumns ==
    {"name", "age_in_weeks", "age_in_days", "time", "time_str", "night_or_day"}

\* one row of the frame after the columns of lines 211-229 have been added
enrich_row(r, nm, d) ==
    LET days == age_days(r.index, d) IN
    [index |-> r.index,
     activity |-> r.activity,
     type |-> r.type,
     feed_volume_ml |-> r.feed_volume_ml,
     units |-> r.units,
     name |-> nm,
     age_in_weeks |-> days \div DaysPerWeek,
     age_in_days |-> days,
     time |-> time_of(r.index),
     time_str |-> strftime_IMp(r.index),
     night_or_day |-> night_or_day(fractional_hour(time_of(r.index)))]

enrich(d, nm, birth) ==
    DataFrame(d.columns \cup EnrichedColumns,
              [i \in 1..Len(d.rows) |-> enrich_row(d.rows[i], nm, birth)])

-----------------------------------------------------------------------------
(* _transform_data: the daily frame *)

Max(S) == CHOOSE x \in S : \A y \in S : y <= x
Min(S) == CHOOSE x \in S : \A y \in S : x <= y

Volumes(rs) == [i \in 1..Len(rs) |-> rs[i].feed_volume_ml]

\* mutant: 'sum' where 'mean' is meant
mean_as_sum(vals) == IF vals = <<>> THEN FloatNaN ELSE Float(SeqSum(vals), 1)

\* Series.mean(): NaN for an empty group
mean(vals) == IF vals = <<>> THEN FloatNaN ELSE Float(SeqSum(vals), Len(vals))

\* 'first' of an integer column: NaN for an empty group
first_number(vals) == IF vals = <<>> THEN FloatNaN ELSE Float(Head(vals), 1)

first_name(rs) == IF rs = <<>> THEN NaN ELSE [kind |-> "str", value |-> rs[1].name]

\* the row that resample('D').agg(...) makes of the records of calendar day b
daily_bin(rs, b) ==
    LET OnDay(r) == r.index.day = b
        g == SelectSeq(rs, OnDay)
    IN [index |-> Timestamp(b, 0),
        name |-> first_name(g),
        age_in_days |-> first_number([i \in 1..Len(g) |-> g[i].age_in_days]),
        age_in_weeks |-> first_number([i \in 1..Len(g) |-> g[i].age_in_weeks]),
        daily_feed_volume_ml |-> SeqSum(Volumes(g)),
        feeds_per_day |-> Len(g),
        average_intake_per_feed |-> mean(Volumes(g))]

\* df.resample('D'): one bin for every calendar day from the first day with a
\* record to the last, in chronological order
resample_D(rs) ==
    IF rs = <<>> THEN <<>>
    ELSE LET days == {rs[i].index.day : i \in 1..Len(rs)}
             lo == Min(days)
             hi == Max(days)
         IN [k \in 1..(hi - lo + 1) |-> daily_bin(rs, lo + k - 1)]

\* mutant: the first bin is dropped instead of the last
drop_head(bins) == IF bins = <<>> THEN <<>> ELSE Tail(bins)

\* daily_fd.drop(daily_fd.tail(1).index)
drop_tail(bins) ==
    IF bins = <<>> THEN <<>>
    ELSE LET last == bins[Len(bins)].index
             Keep(b) == b.index # last
         IN SelectSeq(bins, Keep)

\* avg_days_in_month = 30.4375
AvgDaysInMonthNum == 304375
AvgDaysInMonthDen == 10000

age_in_months(a) ==
    IF a.nan THEN FloatNaN
    ELSE Float(a.num * AvgDaysInMonthDen, a.den * AvgDaysInMonthNum)

with_age_in_months(b) ==
    [index |-> b.index, name |-> b.name, age_in_days |-> b.age_in_days,
     age_in_weeks |-> b.age_in_weeks,
     daily_feed_volume_ml |-> b.daily_feed_volume_ml,
     feeds_per_day |-> b.feeds_per_day,
     average_intake_per_feed |-> b.average_intake_per_feed,
     age_in_months |-> age_in_months(b.age_in_days)]

\* sort_values(by='age_in_days'): ascending, rows without an age last
RECURSIVE insert_by_age(_, _)
insert_by_age(sorted, b) ==
    IF sorted = <<>> THEN <<b>>
    ELSE IF (~b.age_in_days.nan) /\ (Head(sorted).age_in_days.nan
                                     \/ FloatLT(b.age_in_days, Head(sorted).age_in_days))
    THEN <<b>> \o sorted
    ELSE <<Head(sorted)>> \o insert_by_age(Tail(sorted), b)

RECURSIVE sort_by_age(_)
sort_by_age(bins) ==
    IF bins = <<>> THEN <<>>
    ELSE insert_by_age(sort_by_age(SubSeq(bins, 1, Len(bins) - 1)), bins[Len(bins)])

DailyColumns ==
    {"name", "age_in_days", "age_in_weeks", "daily_feed_volume_ml", "feeds_per_day",
     "average_intake_per_feed", "age_in_months"}

daily_frame(rs) ==
    LET kept == drop_tail(resample_D(rs))
    IN DataFrame(DailyColumns,
                 sort_by_age([i \in 1..Len(kept) |-> with_age_in_months(kept[i])]))

-----------------------------------------------------------------------------
(* _transform_data: the weekly frame *)

RECURSIVE SortedSeq(_)
SortedSeq(S) == IF S = {} THEN <<>>
                ELSE LET m == Min(S) IN <<m>> \o SortedSeq(S \ {m})

\* the order in which groupby sorts the night_or_day keys
Periods == <<"Day", "Night">>

\* the row that groupby(['age_in_weeks', 'night_or_day']).agg(...) makes of
\* the records of week w and period p
weekly_group(rs, w, p) ==
    LET InGroup(r) == r.age_in_weeks = w /\ r.night_or_day = p
        g == SelectSeq(rs, InGroup)
    IN [age_in_weeks |-> w,
        night_or_day |-> p,
        name |-> first_name(g),
        total_feed_volume_ml |-> SeqSum(Volumes(g)),
        feeds_count |-> Len(g)]

\* mutant: a group for both periods of every week, as a pivot would make
RECURSIVE weekly_groups_both(_, _)
weekly_groups_both(rs, weeks) ==
    IF weeks = <<>> THEN <<>>
    ELSE [k \in 1..Len(Periods) |-> weekly_group(rs, Head(weeks), Periods[k])]
         \o weekly_groups_both(rs, Tail(weeks))

\* one group for every (week, period) pair that occurs, sorted by the keys
RECURSIVE weekly_groups(_, _)
weekly_groups(rs, weeks) ==
    IF weeks = <<>> THEN <<>>
    ELSE LET w == Head(weeks)
             Occurs(p) == \E i \in 1..Len(rs) :
                              rs[i].age_in_weeks = w /\ rs[i].night_or_day = p
             ps == SelectSeq(Periods, Occurs)
         IN [k \in 1..Len(ps) |-> weekly_group(rs, w, ps[k])]
            \o weekly_groups(rs, Tail(weeks))

\* mutant: the total of all weeks instead of the total of the week
weekly_total_all(groups, g) ==
    SeqSum([i \in 1..Len(groups) |-> groups[i].total_feed_volume_ml])

\* groupby('age_in_weeks')['total_feed_volume_ml'].transform('sum') at row g
weekly_total(groups, g) ==
    LET SameWeek(h) == h.age_in_weeks = g.age_in_weeks
        same == SelectSeq(groups, SameWeek)
    IN SeqSum([i \in 1..Len(same) |-> same[i].total_feed_volume_ml])

\* mutant: the share as a fraction of one, not multiplied by 100
percentage_of_one(vol, tot) == Float(vol, tot)

\* (vol / tot) * 100; the caller has checked that tot is not 0
percentage(vol, tot) == Float(vol * 100, tot)

\* a non-negative quotient rounded to the nearest integer, ties to the even
\* one.  The code rounds the binary float (vol / tot) * 100, which at a tie can
\* lie just below the half (23 of 40 is printed as 57); no volume of the model
\* makes such a pair.
round_half_even(x) ==
    LET q == x.num \div x.den
        r == x.num % x.den
    IN IF 2 * r < x.den THEN q
       ELSE IF 2 * r > x.den THEN q + 1
       ELSE IF q % 2 = 0 THEN q ELSE q + 1

\* format(x, '.0f')
format_0f(x) == round_half_even(x)

\* format(vol, ',.0f'): the groups of three digits between the commas
RECURSIVE format_thousands(_)
format_thousands(v) == IF v < 1000 THEN <<v>>
                       ELSE format_thousands(v \div 1000) \o <<v % 1000>>

\* f"{vol:,.0f}mL<br>({(vol/tot)*100:.0f}%)"
text_label(vol, tot) ==
    [volume |-> format_thousands(vol),
     sep |-> "mL<br>(",
     pct |-> format_0f(percentage(vol, tot)),
     close |-> "%)"]

WeeklyColumns ==
    {"age_in_weeks", "night_or_day", "name", "total_feed_volume_ml", "feeds_count",
     "text_label"}

with_text_label(groups, g) ==
    [age_in_weeks |-> g.age_in_weeks,
     night_or_day |-> g.night_or_day,
     name |-> g.name,
     total_feed_volume_ml |-> g.total_feed_volume_ml,
     feeds_count |-> g.feeds_count,
     text_label |-> text_label(g.total_feed_volume_ml, weekly_total(groups, g))]

groups_of(rs) ==
    weekly_groups(rs, SortedSeq({rs[i].age_in_weeks : i \in 1..Len(rs)}))

\* zip() hands Python floats to vol / tot, which raises ZeroDivisionError when
\* the total of a week is 0
label_raises(rs) ==
    LET groups == groups_of(rs)
    IN \E i \in 1..Len(groups) : weekly_total(groups, groups[i]) = 0

weekly_frame(rs) ==
    LET groups == groups_of(rs)
    IN DataFrame(WeeklyColumns,
                 [i \in 1..Len(groups) |-> with_text_label(groups, groups[i])])

\* the result of _transform_data: the enriched frame is stored before the
\* aggregations run, which raise when the frame has no feed_volume_ml column;
\* daily_data and weekly_data are stored together after the labels are made
transform_data(d, nm, birth) ==
    LET e == enrich(d, nm, birth) IN
    IF "feed_volume_ml" \notin e.columns
    THEN [exc |-> "KeyError", df |-> e, daily |-> None, weekly |-> None]
    ELSE IF label_raises(e.rows)
    THEN [exc |-> "ZeroDivisionError", df |-> e, daily |-> None, weekly |-> None]
    ELSE [exc |-> "None", df |-> e,
          daily |-> daily_frame(e.rows), weekly |-> weekly_frame(e.rows)]

-----------------------------------------------------------------------------
(* The inputs of the model *)

Chars150ml == <<"1", "5", "0", "m", "l">>
Chars100ml == <<"1", "0", "0", "m", "l">>
CharsDash == <<"-">>
CharsMinus5ml == <<"-", "5", " ", "m", "l">>

RawStarts == {Timestamp(0, HMS(8, 0, 0)), Timestamp(1, HMS(7, 0, 0))}
RawFinishes == {Timestamp(0, HMS(8, 20, 0)), Timestamp(1, HMS(7, 15, 0))}
RawActivities == {"Feeding", "Sleeping"}
RawTypes == {"Bottle"}
RawDetails == {Str(Chars150ml), Str(CharsDash), Str(CharsMinus5ml), NaN}

RawRows == [Start : RawStarts, Finish : RawFinishes, Activity : RawActivities,
            Type : RawTypes, Details : RawDetails]

Suffixes == {".csv", ".XLSX", ".xls", ".txt", ".TXT", ""}
Readable == {".csv", ".XLSX", ".xls"}

\* a file that cannot be read has no content the pipeline could see
Files == {f \in [exists : BOOLEAN, suffix : Suffixes,
                 content : SeqsUpTo(RawRows, MaxRawRows)] :
            (~f.exists \/ f.suffix \notin Readable) => f.content = <<>>}

NoFile == [exists |-> FALSE, suffix |-> ".csv", content |-> <<>>]

Names == {"Ayla"}
DefaultDob == Timestamp(-5, 0)

-----------------------------------------------------------------------------
(* process(), one action per stage *)

\* mutant: raw_data is set to an empty frame before the file is looked at
Load_empty_frame_first ==
    /\ st = "UNLOADED" /\ exc = "None"
    /\ LET r == load_data(file) IN
       /\ exc' = r.exc
       /\ IF r.exc = "None"
          THEN raw_data' = r.df /\ st' = "LOADED"
          ELSE raw_data' = DataFrame({}, <<>>) /\ UNCHANGED st
    /\ UNCHANGED <<file, name, dob, validated_data, transformed_data, daily_data,
                   weekly_data, input_data_errors, cleaned_data, report, other>>

Load ==
    /\ st = "UNLOADED" /\ exc = "None"
    /\ LET r == load_data(file) IN
       /\ exc' = r.exc
       /\ IF r.exc = "None"
          THEN raw_data' = r.df /\ st' = "LOADED"
          ELSE UNCHANGED <<raw_data, st>>
    /\ UNCHANGED <<file, name, dob, validated_data, transformed_data, daily_data,
                   weekly_data, input_data_errors, cleaned_data, report, other>>

Clean ==
    /\ st = "LOADED" /\ exc = "None"
    /\ LET r == clean_data(raw_data) IN
       /\ exc' = r.exc
       /\ IF r.exc = "None"
          THEN cleaned_data' = r.df /\ st' = "CLEANED"
          ELSE UNCHANGED <<cleaned_data, st>>
    /\ UNCHANGED <<file, name, dob, raw_data, validated_data, transformed_data,
                   daily_data, weekly_data, input_data_errors, report, other>>

Validate ==
    /\ st = "CLEANED" /\ exc = "None"
    /\ LET r == validate_inputs(cleaned_data) IN
       /\ exc' = r.exc
       /\ input_data_errors' = r.errors
       /\ validated_data' = r.df
       /\ report' = r.report
       /\ st' = "VALIDATED"
    /\ UNCHANGED <<file, name, dob, raw_data, transformed_data, daily_data,
                   weekly_data, cleaned_data, other>>

\* mutant: an exception of _transform_data is caught and passed over
Transform_swallows ==
    /\ st = "VALIDATED" /\ exc = "None"
    /\ LET r == transform_data(validated_data, name, dob) IN
       /\ exc' = "None"
       /\ transformed_data' = r.df
       /\ validated_data' = r.df
       /\ st' = "TRANSFORMED"
       /\ IF r.exc = "None"
          THEN daily_data' = r.daily /\ weekly_data' = r.weekly
          ELSE UNCHANGED <<daily_data, weekly_data>>
    /\ UNCHANGED <<file, name, dob, raw_data, input_data_errors, cleaned_data,
                   report, other>>

\* the frame passed in is the object self.validated_data refers to: the
\* columns added to it are added to validated_data as well
Transform ==
    /\ st = "VALIDATED" /\ exc = "None"
    /\ LET r == transform_data(validated_data, name, dob) IN
       /\ exc' = r.exc
       /\ transformed_data' = r.df
       /\ validated_data' = r.df
       /\ IF r.exc = "None"
          THEN daily_data' = r.daily /\ weekly_data' = r.weekly /\ st' = "TRANSFORMED"
          ELSE UNCHANGED <<daily_data, weekly_data, st>>
    /\ UNCHANGED <<file, name, dob, raw_data, input_data_errors, cleaned_data,
                   report, other>>

\* the fields of a new instance, lines 35-46
Fresh ==
    /\ name \in Names
    /\ raw_data = None /\ validated_data = None /\ transformed_data = None
    /\ daily_data = None /\ weekly_data = None /\ input_data_errors = None
    /\ report = None /\ exc = "None"
    /\ other = None

\* process() on a new instance
Init ==
    /\ Fresh
    /\ file \in Files
    /\ dob = DefaultDob
    /\ cleaned_data = None
    /\ st = "UNLOADED"

Next == Load \/ Clean \/ Validate \/ Transform

Spec == Init /\ [][Next]_vars

-----------------------------------------------------------------------------
(* _validate_inputs called with any cleaned frame *)

CharsNA == <<"n", "/", "a">>

CleanStarts == {Timestamp(0, HMS(8, 0, 0)), Str(CharsNA)}
CleanTypes == {"Left", "Right", "Bottle", "Nappy"}
CleanVolumes == {-5, 0, 150}

CleanRows == [feed_start_time : CleanStarts, activity : RawActivities,
              type : CleanTypes, feed_volume_ml : CleanVolumes]

InitValidate ==
    /\ Fresh
    /\ file = NoFile
    /\ dob = DefaultDob
    /\ \E rs \in SeqsUpTo(CleanRows, MaxCleanRows) :
           cleaned_data = DataFrame(CleanColumns, rs)
    /\ st = "CLEANED"

NextValidate == Validate \/ Transform

SpecValidate == InitValidate /\ [][NextValidate]_vars

-----------------------------------------------------------------------------
(* _transform_data called with the frame _validate_inputs made of accepted
   records *)

\* the state _validate_inputs leaves when it has run on the cleaned frame c
Validated(c) ==
    LET r == validate_inputs(c) IN
    /\ name \in Names
    /\ raw_data = None /\ transformed_data = None
    /\ daily_data = None /\ weekly_data = None
    /\ cleaned_data = c
    /\ validated_data = r.df
    /\ input_data_errors = r.errors
    /\ report = r.report
    /\ exc = "None"
    /\ st = "VALIDATED"
    /\ other = None

Days == 0..MaxDay
FeedTimes == {HMS(7, 0, 0), HMS(23, 0, 0)}
FeedVolumes == {0, 100, 150}

FeedRows == [feed_start_time : {Timestamp(d, t) : d \in Days, t \in FeedTimes},
             activity : {"Feeding"}, type : {"Bottle"},
             feed_volume_ml : FeedVolumes]

InitTransform ==
    /\ file = NoFile
    /\ dob = DefaultDob
    /\ \E rs \in SeqsUpTo(FeedRows, MaxRows) : Validated(DataFrame(CleanColumns, rs))

NextTransform == Transform

SpecTransform == InitTransform /\ [][NextTransform]_vars

\* the times of day around the two limits of the night, and dates of birth
\* before, among and after the days that carry feeds
BoundaryTimes == {HMS(0, 0, 0), HMS(6, 29, 59), HMS(6, 30, 0), HMS(12, 0, 0),
                  HMS(22, 29, 59), HMS(22, 30, 0), HMS(23, 59, 59)}
DobDays == {-8, -5, 0, 1, MaxDay + 7}

BoundaryRows == [feed_start_time : {Timestamp(d, t) : d \in Days, t \in BoundaryTimes},
                 activity : {"Feeding"}, type : {"Left"},
                 feed_volume_ml : {150}]

InitEnrich ==
    /\ file = NoFile
    /\ \E d \in DobDays : dob = Timestamp(d, 0)
    /\ \E rs \in SeqsUpTo(BoundaryRows, MaxEnrichRows) :
           Validated(DataFrame(CleanColumns, rs))

SpecEnrich == InitEnrich /\ [][NextTransform]_vars

\* the feeds of one week with volumes that make the labels vary: four digits,
\* shares that are rounded down and up, and shares that end in a half
LabelVolumes == {5, 35, 520, 850, 1250}

LabelRows == [feed_start_time : {Timestamp(0, t) : t \in FeedTimes},
              activity : {"Feeding"}, type : {"Bottle"},
              feed_volume_ml : LabelVolumes]

InitLabel ==
    /\ file = NoFile
    /\ dob = DefaultDob
    /\ \E rs \in SeqsUpTo(LabelRows, MaxLabelRows) :
           Validated(DataFrame(CleanColumns, rs))

SpecLabel == InitLabel /\ [][NextTransform]_vars

-----------------------------------------------------------------------------
(* _clean_data called with any frame read from a source file, and called
   again with the frame it returned *)

InitClean ==
    /\ name \in Names
    /\ validated_data = None /\ transformed_data = None
    /\ daily_data = None /\ weekly_data = None /\ input_data_errors = None
    /\ report = None /\ exc = "None"
    /\ other = None
    /\ file = NoFile
    /\ dob = DefaultDob
    /\ \E rs \in SeqsUpTo(RawRows, MaxRawRows) : raw_data = DataFrame(RawColumns, rs)
    /\ cleaned_data = None
    /\ st = "LOADED"

\* self._clean_data(cleaned_data): the cleaner applied to its own output
ReClean ==
    /\ st = "CLEANED" /\ exc = "None"
    /\ LET r == clean_data(cleaned_data) IN
       /\ exc' = r.exc
       /\ IF r.exc = "None"
          THEN cleaned_data' = r.df /\ st' = "RECLEANED"
          ELSE UNCHANGED <<cleaned_data, st>>
    /\ UNCHANGED <<file, name, dob, raw_data, validated_data, transformed_data,
                   daily_data, weekly_data, input_data_errors, report, other>>

NextClean == Clean \/ ReClean

SpecClean == InitClean /\ [][NextClean]_vars

-----------------------------------------------------------------------------
(* Two instances, one per child, whose process() calls are interleaved stage
   by stage *)

\* rows of a source file when two instances run
MaxTwoRows == 1

\* the fields __init__ gives a new instance
new_instance(f, nm, d) ==
    [file |-> f, name |-> nm, dob |-> d,
     raw_data |-> None, validated_data |-> None, transformed_data |-> None,
     daily_data |-> None, weekly_data |-> None, input_data_errors |-> None,
     cleaned_data |-> None, report |-> None, st |-> "UNLOADED", exc |-> "None"]

\* the next stage of process() on the instance with the fields p
stage(p) ==
    CASE p.st = "UNLOADED" ->
            LET r == load_data(p.file) IN
            IF r.exc = "None" THEN [p EXCEPT !.raw_data = r.df, !.st = "LOADED"]
            ELSE [p EXCEPT !.exc = r.exc]
      [] p.st = "LOADED" ->
            LET r == clean_data(p.raw_data) IN
            IF r.exc = "None" THEN [p EXCEPT !.cleaned_data = r.df, !.st = "CLEANED"]
            ELSE [p EXCEPT !.exc = r.exc]
      [] p.st = "CLEANED" ->
            LET r == validate_inputs(p.cleaned_data) IN
            [p EXCEPT !.input_data_errors = r.errors, !.validated_data = r.df,
                      !.report = r.report, !.st = "VALIDATED"]
      [] p.st = "VALIDATED" ->
            LET r == transform_data(p.validated_data, p.name, p.dob) IN
            IF r.exc = "None"
            THEN [p EXCEPT !.transformed_data = r.df, !.validated_data = r.df,
                           !.daily_data = r.daily, !.weekly_data = r.weekly,
                           !.st = "TRANSFORMED"]
            ELSE [p EXCEPT !.transformed_data = r.df, !.validated_data = r.df,
                           !.exc = r.exc]

\* the fields of the first instance
this == <<file, name, dob, raw_data, validated_data, transformed_data, daily_data,
          weekly_data, input_data_errors, cleaned_data, report, st, exc>>

\* mutant: the error table is kept in an attribute of the class, so that the
\* validator of one instance replaces the table of the other
OtherStage_class_attribute ==
    /\ other # None
    /\ other.exc = "None" /\ other.st # "TRANSFORMED"
    /\ other' = stage(other)
    /\ IF other.st = "CLEANED"
       THEN /\ input_data_errors' = stage(other).input_data_errors
            /\ UNCHANGED <<file, name, dob, raw_data, validated_data,
                           transformed_data, daily_data, weekly_data, cleaned_data,
                           report, st, exc>>
       ELSE UNCHANGED this

\* one stage of process() on the second instance
OtherStage ==
    /\ other # None
    /\ other.exc = "None" /\ other.st # "TRANSFORMED"
    /\ other' = stage(other)
    /\ UNCHANGED this

TwoStarts == {Timestamp(0, HMS(8, 0, 0))}
TwoFinishes == {Timestamp(0, HMS(8, 20, 0))}
TwoRows == [Start : TwoStarts, Finish : TwoFinishes, Activity : RawActivities,
            Type : RawTypes, Details : RawDetails]
TwoFiles == {f \in [exists : BOOLEAN, suffix : {".csv", ".txt"},
                    content : SeqsUpTo(TwoRows, MaxTwoRows)] :
               (~f.exists \/ f.suffix \notin Readable) => f.content = <<>>}

OtherName == "Amelia"
OtherDob == Timestamp(-12, 0)

InitTwo ==
    /\ name \in Names
    /\ dob = DefaultDob
    /\ file \in TwoFiles
    /\ raw_data = None /\ validated_data = None /\ transformed_data = None
    /\ daily_data = None /\ weekly_data = None /\ input_data_errors = None
    /\ cleaned_data = None /\ report = None /\ exc = "None"
    /\ st = "UNLOADED"
    /\ \E f \in TwoFiles : other = new_instance(f, OtherName, OtherDob)

NextTwo == Load \/ Clean \/ Validate \/ Transform \/ OtherStage

SpecTwo == InitTwo /\ [][NextTwo]_vars

-----------------------------------------------------------------------------
(* The claims *)

CleanKey(r) ==
    [feed_start_time |-> r.feed_start_time, activity |-> r.activity,
     type |-> r.type, feed_volume_ml |-> r.feed_volume_ml]

ValidKey(r) ==
    [feed_start_time |-> r.index, activity |-> r.activity,
     type |-> r.type, feed_volume_ml |-> r.feed_volume_ml]

ValidKeys == [i \in 1..Len(validated_data.rows) |-> ValidKey(validated_data.rows[i])]
ErrorKeys == [i \in 1..Len(input_data_errors.rows) |->
                 CleanKey(input_data_errors.rows[i])]

\* C1: once _validate_inputs has run, every row of the cleaned frame is in
\* exactly one of the valid set and the error table, as often as it occurs in
\* the cleaned frame, so the two sizes add up to the number of cleaned rows;
\* the validator leaves no exception behind, whichever rows failed.
C1_EveryRowInOneOutput ==
    input_data_errors # None =>
        LET c == cleaned_data.rows IN
        /\ Len(ValidKeys) + Len(ErrorKeys) = Len(c)
        /\ \A i \in 1..Len(c) :
              /\ Count(ValidKeys, c[i]) + Count(ErrorKeys, c[i]) = Count(c, c[i])
              /\ ~(c[i] \in Range(ValidKeys) /\ c[i] \in Range(ErrorKeys))
        /\ (transformed_data = None => exc = "None")

\* C1 witness: a failing row followed by an accepted row, both processed
C1_Witness ==
    /\ st = "VALIDATED" /\ transformed_data = None
    /\ Len(cleaned_data.rows) = 2
    /\ FeedingData_errors(cleaned_data.rows[1]) # <<>>
    /\ FeedingData_errors(cleaned_data.rows[2]) = <<>>
    /\ Len(validated_data.rows) = 1
    /\ Len(input_data_errors.rows) = 1

\* C2: no record of the validated set or of the transformed table has a
\* negative feed volume.
C2_NoNegativeVolume ==
    /\ validated_data # None =>
           \A i \in 1..Len(validated_data.rows) :
               validated_data.rows[i].feed_volume_ml >= 0
    /\ transformed_data # None =>
           \A i \in 1..Len(transformed_data.rows) :
               transformed_data.rows[i].feed_volume_ml >= 0

\* C2 witness: a run that ends in TRANSFORMED with records, from a cleaned
\* frame that held a negative volume
C2_Witness ==
    /\ st = "TRANSFORMED"
    /\ \E i \in 1..Len(cleaned_data.rows) : cleaned_data.rows[i].feed_volume_ml < 0
    /\ Len(transformed_data.rows) > 0

TransformedKeys ==
    [i \in 1..Len(transformed_data.rows) |-> ValidKey(transformed_data.rows[i])]

\* the quantity text denotes a negative volume: a minus sign stands directly
\* before its first run of digits
NegativeQuantity(cell) ==
    /\ cell.kind = "str"
    /\ \E i \in 1..(Len(cell.chars) - 1) :
          /\ cell.chars[i] = "-"
          /\ cell.chars[i + 1] \in Digits
          /\ \A j \in 1..i : cell.chars[j] \notin Digits

\* C3: after process(), a source row whose quantity text denotes a negative
\* volume is in the error table and is not in the transformed table.
C3_NegativeOnlyInErrors ==
    st = "TRANSFORMED" =>
        \A i \in 1..Len(raw_data.rows) :
            NegativeQuantity(raw_data.rows[i].Details) =>
                /\ clean_row(raw_data.rows[i]) \notin Range(TransformedKeys)
                /\ clean_row(raw_data.rows[i]) \in Range(ErrorKeys)

\* C4: once _validate_inputs has produced its two outputs, process() raises
\* nothing, however many rows failed, and in TRANSFORMED the transformed,
\* daily, weekly and error tables are all set.
C4_CompletesValidSubset ==
    /\ input_data_errors # None => exc = "None"
    /\ st = "TRANSFORMED" =>
           /\ transformed_data # None /\ daily_data # None
           /\ weekly_data # None /\ input_data_errors # None

DaysOf(rs) == {rs[i].index.day : i \in 1..Len(rs)}

\* C5: the daily frame has no row for the last calendar day of the enriched
\* records, and is empty when they all fall on one day.
C5_LastDayNeverInDaily ==
    daily_data # None =>
        LET days == DaysOf(transformed_data.rows) IN
        /\ \A j \in 1..Len(daily_data.rows) :
               days # {} /\ daily_data.rows[j].index.day # Max(days)
        /\ Cardinality(days) <= 1 => daily_data.rows = <<>>

\* C5 witness: the first input row is one of two records of the last day,
\* and earlier days are left in the daily frame
C5_Witness ==
    /\ st = "TRANSFORMED"
    /\ LET rs == transformed_data.rows IN
       /\ Len(rs) = 3
       /\ rs[1].index.day = Max(DaysOf(rs))
       /\ rs[3].index.day = Max(DaysOf(rs))
       /\ rs[2].index.day < rs[1].index.day
    /\ daily_data.rows # <<>>

\* C6: the daily frame has exactly one row for every calendar day on which
\* an enriched record falls, except the last such day, and no other row.
C6_OneRowPerDayPresent ==
    daily_data # None =>
        LET days == DaysOf(transformed_data.rows)
            kept == days \ {Max(days)}
        IN /\ {daily_data.rows[j].index.day : j \in 1..Len(daily_data.rows)} = kept
           /\ Len(daily_data.rows) = Cardinality(kept)

RECURSIVE DayVolume(_, _)
DayVolume(rs, d) ==
    IF rs = <<>> THEN 0
    ELSE (IF Head(rs).index.day = d THEN Head(rs).feed_volume_ml ELSE 0)
         + DayVolume(Tail(rs), d)

RECURSIVE DayCount(_, _)
DayCount(rs, d) ==
    IF rs = <<>> THEN 0
    ELSE (IF Head(rs).index.day = d THEN 1 ELSE 0) + DayCount(Tail(rs), d)

\* records of 150 and 100 on day 0 followed by one record on day 1
DailyExample ==
    LET rs == transformed_data.rows IN
    /\ Len(rs) = 3
    /\ rs[1].index.day = 0 /\ rs[1].feed_volume_ml = 150
    /\ rs[2].index.day = 0 /\ rs[2].feed_volume_ml = 100
    /\ rs[3].index.day = 1

\* C7: every row of the daily frame carries the sum and the number of the
\* volumes of the enriched records of its calendar day, and their quotient as
\* the average (NaN when the day has no record); records of 150 and 100 on
\* one day followed by one record on the next give the single row
\* {volume 250, count 2, mean 125}.
C7_DailySumCountMean ==
    daily_data # None =>
        /\ \A j \in 1..Len(daily_data.rows) :
              LET b == daily_data.rows[j]
                  vol == DayVolume(transformed_data.rows, b.index.day)
                  cnt == DayCount(transformed_data.rows, b.index.day)
              IN /\ b.daily_feed_volume_ml = vol
                 /\ b.feeds_per_day = cnt
                 /\ b.average_intake_per_feed.nan = (cnt = 0)
                 /\ cnt > 0 => b.average_intake_per_feed.num * cnt
                                   = vol * b.average_intake_per_feed.den
        /\ DailyExample =>
              /\ Len(daily_data.rows) = 1
              /\ daily_data.rows[1].index.day = 0
              /\ daily_data.rows[1].daily_feed_volume_ml = 250
              /\ daily_data.rows[1].feeds_per_day = 2
              /\ daily_data.rows[1].average_intake_per_feed.num
                     = 125 * daily_data.rows[1].average_intake_per_feed.den

\* C7 witness: the example has been transformed
C7_Witness == st = "TRANSFORMED" /\ DailyExample


C9_AgeIsCalendarDays ==
    transformed_data # None =>
        \A i \in 1..Len(transformed_data.rows) :
            LET r == transformed_data.rows[i] IN
            /\ r.age_in_days = r.index.day - dob.day
            /\ 7 * r.age_in_weeks <= r.age_in_days
            /\ r.age_in_days < 7 * r.age_in_weeks + 7

\* C9 witness: a record late in a day before the date of birth, in the
\* middle of a negative week
C9_Witness ==
    /\ st = "TRANSFORMED"
    /\ \E i \in 1..Len(transformed_data.rows) :
           /\ transformed_data.rows[i].age_in_days = -1
           /\ transformed_data.rows[i].age_in_weeks = -1
           /\ transformed_data.rows[i].index.sec = HMS(23, 59, 59)

RECURSIVE WeekPctSum(_, _)
WeekPctSum(ws, w) ==
    IF ws = <<>> THEN 0
    ELSE (IF Head(ws).age_in_weeks = w THEN Head(ws).text_label.pct ELSE 0)
         + WeekPctSum(Tail(ws), w)

RECURSIVE WeekPeriods(_, _)
WeekPeriods(ws, w) ==
    IF ws = <<>> THEN 0
    ELSE (IF Head(ws).age_in_weeks = w THEN 1 ELSE 0) + WeekPeriods(Tail(ws), w)

\* C10: for every week of the weekly frame the percentages of the labels of
\* its rows sum to 100, give or take 1 for every period beyond the first.
C10_WeekPercentagesSumTo100 ==
    weekly_data # None =>
        \A j \in 1..Len(weekly_data.rows) :
            LET w == weekly_data.rows[j].age_in_weeks
                total == WeekPctSum(weekly_data.rows, w)
                extra == WeekPeriods(weekly_data.rows, w) - 1
            IN 100 - extra <= total /\ total <= 100 + extra

\* C10 witness: a week with both periods whose shares are rounded (a third
\* and two thirds), next to a week with one period
C10_Witness ==
    /\ st = "TRANSFORMED"
    /\ \E j, k \in 1..Len(weekly_data.rows) :
           /\ weekly_data.rows[j].age_in_weeks = weekly_data.rows[k].age_in_weeks
           /\ weekly_data.rows[j].text_label.pct = 33
           /\ weekly_data.rows[k].text_label.pct = 67

WeekPairs(rs) == {<<rs[i].age_in_weeks, rs[i].night_or_day>> : i \in 1..Len(rs)}

RECURSIVE PairVolume(_, _)
PairVolume(rs, p) ==
    IF rs = <<>> THEN 0
    ELSE (IF <<Head(rs).age_in_weeks, Head(rs).night_or_day>> = p
          THEN Head(rs).feed_volume_ml ELSE 0)
         + PairVolume(Tail(rs), p)

RECURSIVE PairCount(_, _)
PairCount(rs, p) ==
    IF rs = <<>> THEN 0
    ELSE (IF <<Head(rs).age_in_weeks, Head(rs).night_or_day>> = p THEN 1 ELSE 0)
         + PairCount(Tail(rs), p)

\* C11: the weekly frame has exactly one row for every (age_in_weeks,
\* night_or_day) pair that occurs among the enriched records and no other row;
\* the row carries the sum and the number of the volumes of the records of
\* its pair, so a week with one period has one row.
C11_OneRowPerWeekPeriod ==
    weekly_data # None =>
        LET ws == weekly_data.rows
            rs == transformed_data.rows
        IN /\ WeekPairs(ws) = WeekPairs(rs)
           /\ Len(ws) = Cardinality(WeekPairs(rs))
           /\ \A j \in 1..Len(ws) :
                  LET p == <<ws[j].age_in_weeks, ws[j].night_or_day>> IN
                  /\ ws[j].total_feed_volume_ml = PairVolume(rs, p)
                  /\ ws[j].feeds_count = PairCount(rs, p)
                  /\ ws[j].feeds_count >= 1

\* C11 witness: a week with night feeds only next to a week with both periods
C11_Witness ==
    /\ st = "TRANSFORMED"
    /\ Len(weekly_data.rows) = 3
    /\ \E j \in 1..3 :
           /\ weekly_data.rows[j].night_or_day = "Night"
           /\ \A k \in 1..3 :
                  k # j => weekly_data.rows[k].age_in_weeks
                               # weekly_data.rows[j].age_in_weeks

\* C12: _clean_data applied to a frame that is its own output raises nothing
\* and returns a frame equal to that input.
C12_CleanerIdempotent ==
    /\ st \in {"CLEANED", "RECLEANED"} => exc = "None"
    /\ st = "RECLEANED" => cleaned_data = clean_data(raw_data).df

RECURSIVE Pow10(_)
Pow10(n) == IF n = 0 THEN 1 ELSE 10 * Pow10(n - 1)

\* the integer value of the first contiguous run of digits of a quantity
\* cell; 0 when the cell is missing or holds no digit
FirstDigitRunValue(cell) ==
    IF cell.kind # "str" \/ \A k \in 1..Len(cell.chars) : cell.chars[k] \notin Digits
    THEN 0
    ELSE LET cs == cell.chars
             i == Min({k \in 1..Len(cs) : cs[k] \in Digits})
             j == Max({k \in i..Len(cs) : \A m \in i..k : cs[m] \in Digits})
         IN SeqSum([k \in 1..(j - i + 1) |-> DigitVal(cs[i + k - 1]) * Pow10(j - i + 1 - k)])

\* C13: _clean_data raises nothing whatever the quantity cells hold; every
\* source row has a cleaned row whose volume is the value of the first run of
\* digits of its quantity cell, 0 when there is none or the cell is missing;
\* and a cleaned row with volume 0 that is valid otherwise is in the valid set
\* and not in the error table.
C13_VolumeIsFirstDigitRun ==
    /\ st = "LOADED" => exc = "None"
    /\ cleaned_data # None =>
           \A i \in 1..Len(raw_data.rows) :
               LET r == raw_data.rows[i] IN
               [feed_start_time |-> r.Start, activity |-> r.Activity, type |-> r.Type,
                feed_volume_ml |-> FirstDigitRunValue(r.Details)]
                   \in Range(cleaned_data.rows)
    /\ input_data_errors # None =>
           \A i \in 1..Len(cleaned_data.rows) :
               LET c == cleaned_data.rows[i] IN
               (/\ c.feed_volume_ml = 0
                /\ c.activity \in ActivityValues
                /\ c.type \in ActivityTypeValues
                /\ c.feed_start_time.kind = "Timestamp")
                   => (c \in Range(ValidKeys) /\ c \notin Range(ErrorKeys))

\* the fields of the schema in the order of their declaration
SchemaFields == <<"feed_start_time", "activity", "type", "feed_volume_ml">>

\* the row violates the declaration of field f
Violates(e, f) ==
    CASE f = "feed_start_time" -> e.feed_start_time.kind # "Timestamp"
      [] f = "activity" -> e.activity # "Feeding"
      [] f = "type" -> e.type \notin {"Left", "Right", "Bottle"}
      [] f = "feed_volume_ml" -> e.feed_volume_ml < 0

ViolatedFields(e) == LET V(f) == Violates(e, f) IN SelectSeq(SchemaFields, V)

\* C14: every row of the error table has total_errors >= 1, equal to the
\* number of fields of the row that violate the schema, and error_details has
\* exactly total_errors entries, numbered 1..total_errors, one for each
\* violated field in order; a row whose only violation is the volume -5 has
\* total_errors = 1 and the one entry "1) feed_volume_ml: ... greater than or
\* equal to 0".
C14_ErrorRecordCountsViolations ==
    input_data_errors # None =>
        \A i \in 1..Len(input_data_errors.rows) :
            LET e == input_data_errors.rows[i]
                vf == ViolatedFields(e)
            IN /\ e.total_errors >= 1
               /\ e.total_errors = Len(vf)
               /\ Len(e.error_details) = e.total_errors
               /\ \A k \in 1..Len(e.error_details) :
                      /\ e.error_details[k].n = k
                      /\ e.error_details[k].loc = vf[k]
               /\ (vf = <<"feed_volume_ml">> /\ e.feed_volume_ml = -5) =>
                      e.error_details =
                          <<[n |-> 1, loc |-> "feed_volume_ml",
                             msg |-> "Input should be greater than or equal to 0"]>>

\* C14 witness: the error table holds a row whose only violation is the
\* volume -5 and a row with four violations
C14_Witness ==
    /\ input_data_errors # None
    /\ Len(input_data_errors.rows) = 2
    /\ \E i, j \in 1..2 :
           /\ ViolatedFields(input_data_errors.rows[i]) = <<"feed_volume_ml">>
           /\ input_data_errors.rows[i].total_errors = 1
           /\ input_data_errors.rows[j].total_errors = 4

\* C15: once _validate_inputs has run, a cleaned row is in the valid set if
\* and only if its start time is a timestamp, its activity is Feeding, its
\* type is Left, Right or Bottle and its volume is >= 0; every other row, such
\* as one with activity "Sleeping", is in the error table.
C15_AcceptedIffSchemaHolds ==
    input_data_errors # None =>
        \A i \in 1..Len(cleaned_data.rows) :
            LET c == cleaned_data.rows[i]
                ok == /\ c.feed_start_time.kind = "Timestamp"
                      /\ c.activity = "Feeding"
                      /\ c.type \in {"Left", "Right", "Bottle"}
                      /\ c.feed_volume_ml >= 0
            IN /\ (c \in Range(ValidKeys)) <=> ok
               /\ (c \in Range(ErrorKeys)) <=> ~ok

\* C15 witness: a row with activity "Sleeping" that is valid otherwise has
\* been rejected, next to a row that has been accepted
C15_Witness ==
    /\ input_data_errors # None
    /\ Len(validated_data.rows) = 1
    /\ Len(input_data_errors.rows) = 1
    /\ input_data_errors.rows[1].activity = "Sleeping"
    /\ input_data_errors.rows[1].total_errors = 1

\* the spellings of the supported extensions among the suffixes of the model
SupportedSpellings == {".xls", ".xlsx", ".csv", ".XLS", ".XLSX", ".CSV"}

\* no stage after the loader has run
NoLaterStage ==
    /\ st = "UNLOADED"
    /\ cleaned_data = None /\ validated_data = None /\ input_data_errors = None
    /\ transformed_data = None /\ daily_data = None /\ weekly_data = None
    /\ report = None

\* C16: once _load_data has run, process() has raised FileNotFoundError if the
\* file does not exist, whatever its extension, and ValueError if the file
\* exists with an extension that is, case ignored, none of .xls, .xlsx, .csv;
\* after either error no later stage has run.
C16_LoaderErrors ==
    /\ (st # "UNLOADED" \/ exc # "None") =>
           /\ ~file.exists => exc = "FileNotFoundError"
           /\ (file.exists /\ file.suffix \notin SupportedSpellings) => exc = "ValueError"
    /\ exc \in {"FileNotFoundError", "ValueError"} => NoLaterStage

\* C16 witness: the loader has failed on a missing file with an unsupported
\* extension
C16_Witness ==
    /\ exc = "FileNotFoundError"
    /\ ~file.exists
    /\ file.suffix = ".txt"

\* C17: when process() on a new instance has stopped with FileNotFoundError or
\* ValueError from the loader, raw_data, validated_data, transformed_data,
\* daily_data, weekly_data and input_data_errors are all still None.
C17_NoPartialOutputOnLoadFailure ==
    exc \in {"FileNotFoundError", "ValueError"} =>
        /\ raw_data = None
        /\ validated_data = None
        /\ transformed_data = None
        /\ daily_data = None
        /\ weekly_data = None
        /\ input_data_errors = None

\* C17 witness: the loader has failed on an existing file of an unsupported
\* format
C17_Witness ==
    /\ exc = "ValueError"
    /\ file.exists
    /\ lower(file.suffix) = ".txt"

\* the stage that follows each stage
NextStage ==
    {<<"UNLOADED", "LOADED">>, <<"LOADED", "CLEANED">>, <<"CLEANED", "VALIDATED">>,
     <<"VALIDATED", "TRANSFORMED">>}

\* C18: every step of a run of process() either moves the stage one step
\* forward along UNLOADED, LOADED, CLEANED, VALIDATED, TRANSFORMED without an
\* exception, or raises and leaves the stage where it is, so that the stages
\* run in the order load, clean, validate, transform, each at most once and
\* none after a failure; a step that reaches TRANSFORMED leaves the
\* transformed, daily, weekly and error tables set.
C18_StagesInOrder ==
    [][/\ \/ (<<st, st'>> \in NextStage /\ exc' = "None")
          \/ (st' = st /\ exc' # "None")
       /\ exc = "None"
       /\ st' = "TRANSFORMED" =>
              /\ transformed_data' # None /\ daily_data' # None
              /\ weekly_data' # None /\ input_data_errors' # None]_vars

\* C18 witness: a run over a file of two rows, one of them rejected, has
\* ended in TRANSFORMED
C18_Witness ==
    /\ st = "TRANSFORMED"
    /\ Len(raw_data.rows) = 2
    /\ Len(input_data_errors.rows) = 1
    /\ Len(weekly_data.rows) = 1

\* the fields of the first instance as a record
ThisInstance ==
    [file |-> file, name |-> name, dob |-> dob,
     raw_data |-> raw_data, validated_data |-> validated_data,
     transformed_data |-> transformed_data, daily_data |-> daily_data,
     weekly_data |-> weekly_data, input_data_errors |-> input_data_errors,
     cleaned_data |-> cleaned_data, report |-> report, st |-> st, exc |-> exc]

Done(p) == p.exc # "None" \/ p.st = "TRANSFORMED"

\* the fields of an instance after process() has run on it with no other
\* instance around
RECURSIVE RunAlone(_)
RunAlone(p) == IF Done(p) THEN p ELSE RunAlone(stage(p))

\* C19: with the stages of process() on two instances interleaved in any
\* order, no stage of one instance changes a field of the other, and when
\* process() on an instance has ended its fields are those it has after
\* running alone from the same file, name and date of birth.
C19_InstancesShareNothing ==
    /\ [][(this' # this => other' = other) /\ (other' # other => this' = this)]_vars
    /\ [](Done(ThisInstance) =>
             ThisInstance = RunAlone(new_instance(file, name, dob)))
    /\ [](Done(other) =>
             other = RunAlone(new_instance(other.file, other.name, other.dob)))

\* C19 witness: the first instance has ended in TRANSFORMED without an error
\* row while the second, whose only row was rejected, has ended with KeyError
C19_Witness ==
    /\ st = "TRANSFORMED" /\ exc = "None"
    /\ input_data_errors.rows = <<>>
    /\ other.exc = "KeyError"
    /\ Len(other.input_data_errors.rows) = 1

RECURSIVE WeekTotal(_, _)
WeekTotal(ws, w) ==
    IF ws = <<>> THEN 0
    ELSE (IF Head(ws).age_in_weeks = w THEN Head(ws).total_feed_volume_ml ELSE 0)
         + WeekTotal(Tail(ws), w)

\* the value of the groups of three digits that stand between the commas
RECURSIVE GroupsValue(_)
GroupsValue(gs) ==
    IF gs = <<>> THEN 0 ELSE 1000 * GroupsValue(SubSeq(gs, 1, Len(gs) - 1)) + gs[Len(gs)]

\* p is a whole number nearest to 100 * vol / tot
NearestWhole(p, vol, tot) ==
    LET diff == p * tot - 100 * vol IN
    2 * (IF diff < 0 THEN -diff ELSE diff) <= tot

C21_SummaryCountsRecords ==
    report # None =>
        /\ report.kind = "failed" =>
               /\ report.passed = Len(validated_data.rows)
               /\ report.total = Len(cleaned_data.rows)
               /\ report.failed = Len(input_data_errors.rows)
               /\ report.failed = report.total - report.passed
        /\ report.kind = "all_passed" =>
               /\ input_data_errors.rows = <<>>
               /\ Len(validated_data.rows) = Len(cleaned_data.rows)

Accepted(c) == FeedingData_errors(c) = <<>>

\* C22: after a successful process() the transformed table has one row for
\* every accepted record, in their order, the feeds_count of the weekly rows
\* add up to the number of accepted records and their total_feed_volume_ml to
\* the sum of the volumes; records with the same start time are each kept.
C22_NoRecordLostOrDoubled ==
    st = "TRANSFORMED" =>
        LET valid == SelectSeq(cleaned_data.rows, Accepted)
            ws == weekly_data.rows
        IN /\ Len(transformed_data.rows) = Len(valid)
           /\ \A i \in 1..Len(valid) : ValidKey(transformed_data.rows[i]) = valid[i]
           /\ SeqSum([j \in 1..Len(ws) |-> ws[j].feeds_count]) = Len(valid)
           /\ SeqSum([j \in 1..Len(ws) |-> ws[j].total_feed_volume_ml])
                  = SeqSum(Volumes(valid))

\* C22 witness: two records with the same start time and different volumes
\* and a third record of another period have been aggregated
C22_Witness ==
    /\ st = "TRANSFORMED"
    /\ Len(transformed_data.rows) = 3
    /\ transformed_data.rows[1].index = transformed_data.rows[3].index
    /\ transformed_data.rows[1].feed_volume_ml # transformed_data.rows[3].feed_volume_ml
    /\ Len(weekly_data.rows) = 2

\* C23: the validated table of the instance holds the fields of the accepted
\* records only (activity, type, feed_volume_ml, units) and none of the columns
\* _transform_data adds, also when process() has run to its end.
C23_ValidatedTableUnchanged ==
    st \in {"VALIDATED", "TRANSFORMED"} /\ exc = "None" =>
        /\ validated_data.columns \subseteq ValidatedColumns
        /\ validated_data.columns \cap EnrichedColumns = {}

\* C24: computing the weekly labels never divides by zero, also when every
\* feed of a week has volume 0, and the percentage of every weekly row is a
\* whole number from 0 to 100.
C24_PercentageAlwaysDefined ==
    /\ exc # "ZeroDivisionError"
    /\ weekly_data # None =>
           \A j \in 1..Len(weekly_data.rows) :
               weekly_data.rows[j].text_label.pct \in 0..100

\* C25: the frame _clean_data returns holds no two rows that are equal in
\* feed_start_time, activity, type and feed_volume_ml.
C25_CleanedRowsDistinct ==
    cleaned_data # None =>
        \A i, j \in 1..Len(cleaned_data.rows) :
            i # j => cleaned_data.rows[i] # cleaned_data.rows[j]

====
